---------------------------- MODULE Spec2Model ----------------------------
(***************************************************************************)
(* Model of the MIDI effect-controller firmware (valivia/midi).            *)
(*                                                                         *)
(*   Parameter Store   src/src/bin/modules/state.rs                        *)
(*   Encoder Decoder   src/src/bin/modules/rotary_encoder.rs               *)
(*   MIDI Transport    src/src/bin/modules/midi.rs                         *)
(*   Display, button   src/src/bin/modules/display.rs, src/src/bin/main.rs *)
(*                                                                         *)
(* The tasks are cooperative (embassy executor): a task runs from one      *)
(* await to the next without interruption, so one action is one such run.  *)
(* The specifications share the variables:                                 *)
(*   SpecStore    adjust_selected / next_option on STATE and MIDI_QUEUE    *)
(*   SpecEncoder  the poll loop of rotary_encoder_task                     *)
(*   SpecUsb      the loop of usb_task fed by a host                       *)
(*   SpecSend     usb_task answering the identity request, fair link       *)
(*   SpecControl  encoder, button loop, state_task and display_task        *)
(*   SpecOutbound state_task producing events, usb_task draining them      *)
(*   SpecDisplay  SpecControl with a display that keeps ticking            *)
(***************************************************************************)
EXTENDS Integers, Sequences, FiniteSets, TLC

VARIABLES
    \* ---- state.rs: STATE, and the panic state of the firmware
    attributes,        \* State.attributes: [0..1 -> Attribute]
    selected_option,   \* State.selected_option
    panicked,          \* TRUE once a task panicked (main.rs panic handler spins forever)
    overflow_checks,   \* build profile: TRUE = overflow-checks on (dev), FALSE = off (release)
    \* ---- midi.rs: MIDI_QUEUE
    midi_queue,        \* Channel<_, MidiMessage, 16>: sequence of events, head first
    produced,          \* history: number of events accepted into MIDI_QUEUE so far
    produced_log,      \* history: every event adjust_selected constructed, in order
    \* ---- history of the Parameter Store calls
    call,              \* the last call made on State, with the state it found
    ncalls,            \* number of calls made on State
    presses,           \* number of next_option calls
    \* ---- rotary_encoder.rs
    counter,           \* PCNT hardware counter (i16)
    last_value,        \* rotary_encoder_task: last_value
    count,             \* rotary_encoder_task: count
    rotary_delta,      \* ROTARY_DELTA watch cell: [val, fresh]
    rotary_count,      \* ROTARY_COUNT watch cell: [val, fresh]
    poll,              \* history: what the last poll read and published
    npolls,            \* number of polls made
    pulses,            \* hardware pulses batches since the last poll
    published,         \* history: the deltas sent to ROTARY_DELTA, in order
    \* ---- midi.rs: usb_task
    sysex_receive_buffer, \* Vec<u8, SYSEX_BUFFER_SIZE>, declared before the loop
    usb_pc,            \* where usb_task is: "poll", "packets", "send", "drain", "timer"
    transfer,          \* packets of the transfer read in this iteration, not yet processed
    chunks,            \* chunks of the response not yet handed to the link
    host_script,       \* the packets the host sends in this run
    host_pos,          \* number of packets of host_script already read
    wire,              \* history: payloads the link accepted, in order
    dropped,           \* history: events popped from MIDI_QUEUE that the link did not accept, and why
    sysex_log,         \* history: every process_sysex call, request and response
    overflow_mark,     \* history: [active, wire_len] set by a buffer overflow, reset by a start packet
    start_in_transfer, \* history: a start packet was processed in the current transfer
    reply_send,        \* history: the sending of the last response of this iteration: [active, wire_len, errors, retried]
    \* ---- main.rs button loop, state.rs state_task, display.rs display_task
    button_pressed,    \* BUTTON_PRESSED: TRUE while a notification is pending
    main_pc,           \* where main's loop is: "edge" (wait_for_falling_edge), "timer"
    signalled,         \* history: number of BUTTON_PRESSED.signal(()) calls
    state_pc,          \* where state_task is: "select", "yield"
    state_lock,        \* STATE mutex: "none", or the task whose guard is alive
    applied,           \* history: the deltas state_task applied, with the number published then
    old_value,         \* display_task: old_value
    rendered           \* history: what display_task drew last

storeVars == <<attributes, selected_option, panicked, overflow_checks,
               midi_queue, produced, produced_log, call, ncalls, presses>>
encVars   == <<counter, last_value, count, rotary_delta, rotary_count,
               poll, npolls, pulses, published>>
usbVars   == <<sysex_receive_buffer, usb_pc, transfer, chunks, host_script,
               host_pos, wire, dropped, sysex_log, overflow_mark,
               start_in_transfer, reply_send>>
ctlVars   == <<button_pressed, main_pc, signalled, state_pc, state_lock,
               applied, old_value, rendered>>
vars      == <<storeVars, encVars, usbVars, ctlVars>>

\* what the actions of one component leave alone
notStore == <<encVars, usbVars, ctlVars>>
notEnc   == <<storeVars, usbVars, ctlVars>>
\* usb_task shares MIDI_QUEUE with the store
notUsb   == <<attributes, selected_option, panicked, overflow_checks, produced,
              produced_log, call, ncalls, presses, encVars, ctlVars>>

-----------------------------------------------------------------------------
(* Bounds of the model *)

\* calls on State explored after the initial state
MaxCalls == 3
\* polls of the encoder loop explored
MaxPolls == 2
\* hardware pulse batches between two polls
MaxPulses == 2
\* events waiting in MIDI_QUEUE when a run of the transport starts
MaxQueued == 2
\* button presses explored
MaxPresses == 2

-----------------------------------------------------------------------------
(* Integer helpers: Rust's fixed-width arithmetic *)

\* two's complement wrap of an integer to i16
WrapI16(x) == ((x + 32768) % 65536) - 32768

\* `x as i8` for an i16 x
AsI8(x) == ((x + 128) % 256) - 128

\* `x as u8` for an i16 x
AsU8(x) == x % 256

\* Ord::clamp
Clamp(x, lo, hi) == IF x < lo THEN lo ELSE IF x > hi THEN hi ELSE x

\* Option<T>: Some(v), and None (a value of the same shape as Some, so that the
\* two compare)
Some(v) == [some |-> TRUE, value |-> v]
None == [some |-> FALSE, value |-> 0]
NoneBytes == [some |-> FALSE, value |-> <<>>]

-----------------------------------------------------------------------------
(* Parameter Store: state.rs *)

\* midi_types::Channel::C1 is channel index 0 (status byte 0xB0 | 0)
ChannelC1 == 0

\* capacity of MIDI_QUEUE
QueueCap == 16

\* STATE as constructed
ConstructedAttributes ==
    [i \in 0..1 |->
        IF i = 0
        THEN [name |-> "Delay", channel |-> ChannelC1, control |-> 20,
              min |-> 0, max |-> 100, value |-> 15]
        ELSE [name |-> "Feedback", channel |-> ChannelC1, control |-> 21,
              min |-> 0, max |-> 100, value |-> 50]]

\* attributes.len()
AttributesLen == Cardinality(DOMAIN ConstructedAttributes)

\* midi_types: Value7::from(u8) saturates at 127
Value7From(v) == IF v > 127 THEN 127 ELSE v

\* MidiMessage::ControlChange(channel, control, value); seq is a history tag
\* (the index of the event among those accepted by the queue), not program data
ControlChange(channel, control, value, seq) ==
    [channel |-> channel, control |-> control, value |-> value, seq |-> seq]

\* the program's part of an event
EventData(e) == [channel |-> e.channel, control |-> e.control, value |-> e.value]

\* `attr.value as i16 + delta` leaves i16: a panic with overflow-checks, a wrap without
SumOverflows(value, delta) == value + delta > 32767 \/ value + delta < -32768

\* mutant of NewValue: the sum stored without clamping
NewValueUnclamped(attr, delta) == AsU8(WrapI16(attr.value + delta))

\* (attr.value as i16 + delta).clamp(attr.min as i16, attr.max as i16) as u8,
\* for a sum that was computed (wrapped where it overflowed)
NewValue(attr, delta) ==
    AsU8(Clamp(WrapI16(attr.value + delta), attr.min, attr.max))

\* MIDI_QUEUE.try_send(packet).ok(): appended when there is room, else dropped
TrySend(queue, packet) ==
    IF Len(queue) < QueueCap THEN Append(queue, packet) ELSE queue

\* mutant of NextSelected: modulus by the last index instead of the length
NextSelectedLastIndex(sel, len) == (sel + 1) % (len - 1)

\* (self.selected_option + 1) % self.attributes.len()
NextSelected(sel, len) == (sel + 1) % len

\* State::adjust_selected on a store st = [attributes, selected_option, midi_queue,
\* produced, panicked], under build profile `checks`
AdjustSelectedOn(st, delta, checks) ==
    IF st.selected_option \notin DOMAIN st.attributes
    THEN st
    ELSE LET attr == st.attributes[st.selected_option] IN
         IF checks /\ SumOverflows(attr.value, delta)
         THEN [st EXCEPT !.panicked = TRUE]
         ELSE LET new_value == NewValue(attr, delta)
                  packet == ControlChange(attr.channel, attr.control,
                                          Value7From(new_value), st.produced + 1)
                  queue == TrySend(st.midi_queue, packet)
              IN [st EXCEPT !.attributes[st.selected_option].value = new_value,
                            !.midi_queue = queue,
                            !.log = Append(st.log, packet),
                            !.produced = IF queue = st.midi_queue
                                         THEN st.produced ELSE st.produced + 1]

\* the store as constructed: STATE (state.rs:14-36), MIDI_QUEUE empty
ConstructedStore ==
    [attributes |-> ConstructedAttributes, selected_option |-> 0,
     midi_queue |-> <<>>, produced |-> 0, log |-> <<>>, panicked |-> FALSE]

\* The store after n adjustments by +5 of the constructed store: the queue holds
\* min(n, QueueCap) events.  Used to start runs with the queue near its capacity.
RECURSIVE StoreAfter(_)
StoreAfter(n) ==
    IF n = 0 THEN ConstructedStore
    ELSE AdjustSelectedOn(StoreAfter(n - 1), 5, FALSE)

\* numbers of earlier adjustments a run starts from
StartLens == {0} \cup ((QueueCap - 3) .. QueueCap)

\* deltas given to adjust_selected
Deltas == {-32768, -5, 5, 32767}

NoCall == [op |-> "none", delta |-> 0, sel |-> 0, value |-> 0, qlen |-> 0]

StoreRecord ==
    [attributes |-> attributes, selected_option |-> selected_option,
     midi_queue |-> midi_queue, produced |-> produced, log |-> produced_log,
     panicked |-> panicked]

StoreInit ==
    /\ overflow_checks \in BOOLEAN
    /\ \E n \in StartLens :
         LET st == StoreAfter(n) IN
         /\ attributes = st.attributes
         /\ selected_option = st.selected_option
         /\ midi_queue = st.midi_queue
         /\ produced = st.produced
         /\ produced_log = st.log
         /\ panicked = st.panicked
    /\ call = NoCall
    /\ ncalls = 0
    /\ presses = 0

\* state_task, Either::First: STATE.lock().await.adjust_selected(delta).await
AdjustSelected(delta) ==
    /\ ~panicked
    /\ ncalls < MaxCalls
    /\ LET st == AdjustSelectedOn(StoreRecord, delta, overflow_checks) IN
       /\ attributes' = st.attributes
       /\ selected_option' = st.selected_option
       /\ midi_queue' = st.midi_queue
       /\ produced' = st.produced
       /\ produced_log' = st.log
       /\ panicked' = st.panicked
    /\ call' = [op |-> "adjust_selected", delta |-> delta, sel |-> selected_option,
                value |-> attributes[selected_option].value, qlen |-> Len(midi_queue)]
    /\ ncalls' = ncalls + 1
    /\ UNCHANGED <<overflow_checks, presses>>
    /\ UNCHANGED notStore

\* mutant of NextOptionQueue: next_option sends the newly selected parameter
NextOptionQueueSends(queue, attr) ==
    TrySend(queue, ControlChange(attr.channel, attr.control, Value7From(attr.value), 0))

\* MIDI_QUEUE after next_option: after the index update the function only logs
\* the name of the selected attribute
NextOptionQueue(queue, attr) == queue

\* state_task, Either::Second: STATE.lock().await.next_option()
NextOption ==
    /\ ~panicked
    /\ ncalls < MaxCalls
    /\ selected_option' = NextSelected(selected_option, AttributesLen)
    /\ midi_queue' = NextOptionQueue(midi_queue, attributes[selected_option'])
    /\ call' = [op |-> "next_option", delta |-> 0, sel |-> selected_option,
                value |-> attributes[selected_option].value, qlen |-> Len(midi_queue)]
    /\ ncalls' = ncalls + 1
    /\ presses' = presses + 1
    /\ UNCHANGED <<attributes, panicked, overflow_checks, produced, produced_log>>
    /\ UNCHANGED notStore


-----------------------------------------------------------------------------
(* Encoder Decoder: rotary_encoder.rs *)

\* embassy_sync Watch::send: the cell keeps the latest value and marks it new
\* for the receiver
WatchSend(cell, v) == [val |-> Some(v), fresh |-> TRUE]

WatchEmpty == [val |-> None, fresh |-> FALSE]

\* i16::wrapping_sub
WrappingSub(a, b) == WrapI16(a - b)

\* u8::saturating_add_signed(i8)
SaturatingAddSigned(value, d) == Clamp(value + d, 0, 255)

\* saturating_add_custom_range(value, delta, min, max)
saturating_add_custom_range(value, delta, min, max) ==
    Clamp(SaturatingAddSigned(value, AsI8(delta)), min, max)

\* changes of the hardware counter between two reads (quadrature edges counted
\* by the PCNT unit, which wraps at 16 bits)
PulseSteps == {-1, 1, 200, 32767}

\* changes of the counter while the control loop is watched: a detent
\* forwards, and a change that takes the sum of adjust_selected out of i16
TurnSteps == {1, 32767}

\* changes of the counter while the display is watched: one detent, and a turn
\* that takes Delay from its constructed 15 to 50, the constructed value of
\* Feedback
ShownSteps == {1, 35}

\* mutant of RawUnchanged: the poll never skips
RawUnchangedNever(current_value, last) == FALSE

\* `if current_value == last_value { continue; }`
RawUnchanged(current_value, last) == current_value = last

NoPoll == [read |-> 0, changed |-> FALSE, delta |-> None, count |-> None]

EncoderInit ==
    /\ counter = 0
    /\ last_value = 0
    /\ count = 0
    /\ rotary_delta = WatchEmpty
    /\ rotary_count = WatchEmpty
    /\ poll = NoPoll
    /\ npolls = 0
    /\ pulses = 0
    /\ published = <<>>

\* the PCNT unit counts edges while the task sleeps
HwPulses(step) ==
    /\ npolls < MaxPolls
    /\ pulses < MaxPulses
    /\ counter' = WrapI16(counter + step)
    /\ pulses' = pulses + 1
    /\ UNCHANGED <<last_value, count, rotary_delta, rotary_count, poll, npolls,
                   published>>
    /\ UNCHANGED notEnc

\* one iteration of the loop of rotary_encoder_task, from the timer to the next
EncoderPoll ==
    /\ npolls < MaxPolls
    /\ npolls' = npolls + 1
    /\ pulses' = 0
    /\ UNCHANGED counter
    /\ UNCHANGED notEnc
    /\ LET current_value == counter IN
       IF RawUnchanged(current_value, last_value)
       THEN /\ poll' = [read |-> current_value, changed |-> FALSE,
                        delta |-> None, count |-> None]
            /\ UNCHANGED <<last_value, count, rotary_delta, rotary_count, published>>
       ELSE LET delta == WrappingSub(current_value, last_value)
                new_count == saturating_add_custom_range(count, delta, 0, 100)
            IN /\ rotary_delta' = WatchSend(rotary_delta, delta)
               /\ published' = Append(published, delta)
               /\ last_value' = current_value
               /\ IF new_count = count
                  THEN /\ poll' = [read |-> current_value, changed |-> TRUE,
                                   delta |-> Some(delta), count |-> None]
                       /\ UNCHANGED <<count, rotary_count>>
                  ELSE /\ count' = new_count
                       /\ rotary_count' = WatchSend(rotary_count, new_count)
                       /\ poll' = [read |-> current_value, changed |-> TRUE,
                                   delta |-> Some(delta), count |-> Some(new_count)]


-----------------------------------------------------------------------------
(* MIDI Transport: midi.rs *)

\* capacity of sysex_receive_buffer
SYSEX_BUFFER_SIZE == 64

\* `let mut buffer = [0; 64]`: a transfer holds at most 16 four-byte packets
MaxTransferPackets == 16

\* process_sysex: IDENTITY_REQUEST (F0 7E 7F 06 01 F7)
IDENTITY_REQUEST == <<240, 126, 127, 6, 1, 247>>

\* process_sysex: the response (F0 7E 7F 06 02 01 02 03 04 05 00 00 00 00 F7)
IdentityReply == <<240, 126, 127, 6, 2, 1, 2, 3, 4, 5, 0, 0, 0, 0, 247>>

\* mutant of process_sysex: the request matched as a prefix
process_sysex_prefix(request) ==
    IF Len(request) >= Len(IDENTITY_REQUEST)
       /\ SubSeq(request, 1, Len(IDENTITY_REQUEST)) = IDENTITY_REQUEST
    THEN Some(IdentityReply) ELSE NoneBytes

\* process_sysex(request): Some(response) or no response
process_sysex(request) ==
    IF request = IDENTITY_REQUEST THEN Some(IdentityReply) ELSE NoneBytes

\* response.chunks(3): consecutive slices of 3 bytes, the last one shorter
RECURSIVE Chunks3(_)
Chunks3(bytes) ==
    IF Len(bytes) = 0 THEN <<>>
    ELSE IF Len(bytes) <= 3 THEN <<bytes>>
    ELSE <<SubSeq(bytes, 1, 3)>> \o Chunks3(SubSeq(bytes, 4, Len(bytes)))

\* A USB-MIDI event packet is its 4 raw bytes <<header, b1, b2, b3>>; with cable 0
\* the header is the code index number (CIN).
Cin(packet) == packet[1] % 16

\* usbd_midi CodeIndexNumber::payload_size
PayloadSize(cin) ==
    IF cin \in {5, 15} THEN 1
    ELSE IF cin \in {2, 6, 12, 13} THEN 2
    ELSE 3

\* usbd_midi UsbMidiEventPacket::payload_bytes
payload_bytes(packet) == SubSeq(packet, 2, 1 + PayloadSize(Cin(packet)))

\* usbd_midi UsbMidiEventPacket::is_sysex: CIN 4, 6, 7, or CIN 5 carrying F7
is_sysex(packet) ==
    \/ Cin(packet) \in {4, 6, 7}
    \/ Cin(packet) = 5 /\ packet[2] = 247

\* usbd_midi UsbMidiEventPacket::is_sysex_start
is_sysex_start(packet) == is_sysex(packet) /\ packet[2] = 240

\* usbd_midi UsbMidiEventPacket::is_sysex_end
is_sysex_end(packet) ==
    is_sysex(packet) /\ (packet[2] = 247 \/ packet[3] = 247 \/ packet[4] = 247)

\* heapless Vec::extend_from_slice: all of the slice or nothing
ExtendFits(buffer, bytes) == Len(buffer) + Len(bytes) <= SYSEX_BUFFER_SIZE

\* `if packet.is_sysex_start() { sysex_receive_buffer.clear(); }`
BufferAfterStart(buffer, packet) == IF is_sysex_start(packet) THEN <<>> ELSE buffer

\* mutant of LoopTopBuffer: the buffer created anew in every iteration
LoopTopBufferFresh(buffer) == <<>>

\* sysex_receive_buffer is created before `loop`: an iteration starts with the
\* buffer the previous one left
LoopTopBuffer(buffer) == buffer

\* MidiMessage::render_slice of a Control Change: status 0xB0 | channel, control, value
RenderSlice(message) == <<176 + message.channel, message.control, message.value>>

\* mutant of AfterBusy: the popped message put back (the commented-out try_send)
AfterBusyRequeue(queue, message) == TrySend(queue, message)

\* Err(UsbError::WouldBlock) while draining: `// let _ = MIDI_QUEUE.try_send(message);`
\* is commented out, the queue stays as the pop left it
AfterBusy(queue, message) == queue

\* results of midi_class.send_packet: Ok, Err(WouldBlock), any other Err
LinkResults == {"Ok", "WouldBlock", "Other"}

\* mutant of ChunksAfterSend: a busy chunk given up like any other error
ChunksAfterSendSkipBusy(result, cs) == Tail(cs)

\* the chunks left after one send_packet of the head chunk: Ok => break and
\* `err != WouldBlock` => break leave the retry loop, and the `for` takes the
\* next chunk; WouldBlock goes round the retry loop with the same chunk
ChunksAfterSend(result, cs) == IF result = "WouldBlock" THEN cs ELSE Tail(cs)

NoReply == [active |-> FALSE, wire_len |-> 0, errors |-> 0, retried |-> FALSE]

\* numbers of packets the host gets into one transfer
BurstSizes == {0, 1, 6, MaxTransferPackets}

NoOverflow == [active |-> FALSE, wire_len |-> 0]

\* where the loop goes once a packet is done: the next packet, or the draining
AfterPacket(rest) == IF rest = <<>> THEN "drain" ELSE "packets"

\* usb_dev.poll(..) and midi_class.read(&mut buffer): k packets of the host are
\* read (none when poll reports nothing or read fails)
UsbPoll(k) ==
    /\ usb_pc = "poll"
    /\ k <= MaxTransferPackets
    /\ LET n == IF k <= Len(host_script.packets) - host_pos
                THEN k ELSE Len(host_script.packets) - host_pos
       IN /\ transfer' = SubSeq(host_script.packets, host_pos + 1, host_pos + n)
          /\ host_pos' = host_pos + n
    /\ sysex_receive_buffer' = LoopTopBuffer(sysex_receive_buffer)
    /\ usb_pc' = AfterPacket(transfer')
    /\ start_in_transfer' = FALSE
    /\ UNCHANGED reply_send
    /\ UNCHANGED <<chunks, host_script, wire, dropped, sysex_log,
                   overflow_mark, midi_queue>>
    /\ UNCHANGED notUsb

\* `if !packet.is_sysex()`: a regular message is parsed and printed
UsbRegularPacket ==
    /\ usb_pc = "packets"
    /\ transfer # <<>>
    /\ ~is_sysex(Head(transfer))
    /\ transfer' = Tail(transfer)
    /\ usb_pc' = AfterPacket(transfer')
    /\ UNCHANGED <<start_in_transfer, reply_send>>
    /\ UNCHANGED <<sysex_receive_buffer, chunks, host_script, host_pos, wire, dropped, sysex_log, overflow_mark, midi_queue>>
    /\ UNCHANGED notUsb

\* the overflow mark after a packet whose start-clear was applied
MarkAfterStart(packet) == IF is_sysex_start(packet) THEN NoOverflow ELSE overflow_mark

\* a SysEx packet whose payload does not fit: Err(_) => break
UsbSysexOverflow ==
    /\ usb_pc = "packets"
    /\ transfer # <<>>
    /\ LET packet == Head(transfer)
           cleared == BufferAfterStart(sysex_receive_buffer, packet)
       IN /\ is_sysex(packet)
          /\ ~ExtendFits(cleared, payload_bytes(packet))
          /\ sysex_receive_buffer' = cleared
          /\ transfer' = <<>>
          /\ usb_pc' = "drain"
          /\ overflow_mark' = [active |-> TRUE, wire_len |-> Len(wire)]
    /\ UNCHANGED <<start_in_transfer, reply_send>>
    /\ UNCHANGED <<chunks, host_script, host_pos, wire, dropped,
                   sysex_log, midi_queue>>
    /\ UNCHANGED notUsb

\* a SysEx packet that fits and does not end the message
UsbSysexAppend ==
    /\ usb_pc = "packets"
    /\ transfer # <<>>
    /\ LET packet == Head(transfer)
           cleared == BufferAfterStart(sysex_receive_buffer, packet)
       IN /\ is_sysex(packet)
          /\ ExtendFits(cleared, payload_bytes(packet))
          /\ ~is_sysex_end(packet)
          /\ sysex_receive_buffer' = cleared \o payload_bytes(packet)
          /\ overflow_mark' = MarkAfterStart(packet)
          /\ start_in_transfer' = (start_in_transfer \/ is_sysex_start(packet))
    /\ transfer' = Tail(transfer)
    /\ UNCHANGED reply_send
    /\ usb_pc' = AfterPacket(transfer')
    /\ UNCHANGED <<chunks, host_script, host_pos, wire, dropped,
                   sysex_log, midi_queue>>
    /\ UNCHANGED notUsb

\* a SysEx packet that fits and ends the message: process_sysex, and the
\* response, if any, is cut into chunks for sending
UsbSysexEnd ==
    /\ usb_pc = "packets"
    /\ transfer # <<>>
    /\ LET packet == Head(transfer)
           cleared == BufferAfterStart(sysex_receive_buffer, packet)
           message == cleared \o payload_bytes(packet)
           response == process_sysex(message)
       IN /\ is_sysex(packet)
          /\ ExtendFits(cleared, payload_bytes(packet))
          /\ is_sysex_end(packet)
          /\ sysex_receive_buffer' = message
          /\ overflow_mark' = MarkAfterStart(packet)
          /\ start_in_transfer' = (start_in_transfer \/ is_sysex_start(packet))
          /\ sysex_log' = Append(sysex_log,
                 [request |-> message, response |-> response,
                  after_overflow |-> overflow_mark'.active,
                  same_transfer |-> start_in_transfer'])
          /\ transfer' = Tail(transfer)
          /\ IF ~response.some
             THEN /\ chunks' = <<>>
                  /\ usb_pc' = AfterPacket(transfer')
                  /\ UNCHANGED reply_send
             ELSE /\ chunks' = Chunks3(response.value)
                  /\ usb_pc' = "send"
                  /\ reply_send' = [active |-> TRUE, wire_len |-> Len(wire),
                                     errors |-> 0, retried |-> FALSE]
    /\ UNCHANGED <<host_script, host_pos, wire, dropped, midi_queue>>
    /\ UNCHANGED notUsb

\* one midi_class.send_packet(packet.clone()) of the retry loop of a chunk:
\* Ok ends the chunk, WouldBlock tries again, another error ends the retry loop
\* (`break` leaves `loop`, the `for` goes on with the next chunk)
UsbSendChunk(result) ==
    /\ usb_pc = "send"
    /\ chunks # <<>>
    /\ wire' = IF result = "Ok"
               THEN Append(wire, [kind |-> "sysex", bytes |-> Head(chunks), seq |-> 0])
               ELSE wire
    /\ chunks' = ChunksAfterSend(result, chunks)
    /\ usb_pc' = IF chunks' # <<>> THEN "send" ELSE AfterPacket(transfer)
    /\ reply_send' = [reply_send EXCEPT
                         !.errors = IF result = "Other" THEN @ + 1 ELSE @,
                         !.retried = @ \/ result = "WouldBlock"]
    /\ UNCHANGED start_in_transfer
    /\ UNCHANGED <<sysex_receive_buffer, transfer, host_script, host_pos, dropped,
                   sysex_log, overflow_mark, midi_queue>>
    /\ UNCHANGED notUsb

\* `while let Ok(message) = MIDI_QUEUE.try_receive()`: one message popped,
\* rendered and handed to the link
UsbDrain(result) ==
    /\ usb_pc = "drain"
    /\ midi_queue # <<>>
    /\ LET message == Head(midi_queue) IN
       /\ wire' = IF result = "Ok"
                  THEN Append(wire, [kind |-> "cc", bytes |-> RenderSlice(message),
                                     seq |-> message.seq])
                  ELSE wire
       /\ dropped' = IF result = "Ok" THEN dropped
                     ELSE Append(dropped, [message |-> message, result |-> result])
       /\ midi_queue' = IF result = "WouldBlock"
                        THEN AfterBusy(Tail(midi_queue), message)
                        ELSE Tail(midi_queue)
       /\ usb_pc' = IF result = "WouldBlock" THEN "timer" ELSE "drain"
    /\ UNCHANGED <<start_in_transfer, reply_send>>
    /\ UNCHANGED <<sysex_receive_buffer, transfer, chunks, host_script, host_pos,
                   sysex_log, overflow_mark>>
    /\ UNCHANGED notUsb

\* try_receive fails on the empty queue: the while loop ends
UsbDrainEmpty ==
    /\ usb_pc = "drain"
    /\ midi_queue = <<>>
    /\ usb_pc' = "timer"
    /\ UNCHANGED <<start_in_transfer, reply_send>>
    /\ UNCHANGED <<sysex_receive_buffer, transfer, chunks, host_script, host_pos,
                   wire, dropped, sysex_log, overflow_mark, midi_queue>>
    /\ UNCHANGED notUsb

\* Timer::after_millis(50).await: the other tasks run, then the loop repeats
UsbTimer ==
    /\ usb_pc = "timer"
    /\ usb_pc' = "poll"
    /\ reply_send' = NoReply
    /\ UNCHANGED start_in_transfer
    /\ UNCHANGED <<sysex_receive_buffer, transfer, chunks, host_script, host_pos,
                   wire, dropped, sysex_log, overflow_mark, midi_queue>>
    /\ UNCHANGED notUsb

-----------------------------------------------------------------------------
(* The host: the packets it sends to usb_task *)

Pkt(cin, b1, b2, b3) == <<cin, b1, b2, b3>>

RECURSIVE Repeat(_, _)
Repeat(packet, n) == IF n = 0 THEN <<>> ELSE <<packet>> \o Repeat(packet, n - 1)

\* the identity request as SysEx packets, in every split into packets of 3, 2
\* and (for the closing F7) 1 payload bytes; a 3-byte packet has CIN 4 or 7
RequestSplits ==
    {<<Pkt(c1, 240, 126, 127), Pkt(c2, 6, 1, 247)>> : c1 \in {4, 7}, c2 \in {4, 7}}
    \cup {<<Pkt(c, 240, 126, 127), Pkt(6, 6, 1, 0), Pkt(5, 247, 0, 0)>> : c \in {4, 7}}
    \cup {<<Pkt(6, 240, 126, 0), Pkt(c, 127, 6, 1), Pkt(5, 247, 0, 0)>> : c \in {4, 7}}
    \cup {<<Pkt(6, 240, 126, 0), Pkt(6, 127, 6, 0), Pkt(6, 1, 247, 0)>>}

\* a regular message between the packets of the request
RequestInterleaved ==
    <<Pkt(4, 240, 126, 127), Pkt(11, 176, 20, 5), Pkt(7, 6, 1, 247)>>

\* traffic before the request that leaves bytes in the buffer, or none
Preambles ==
    { <<>>,
      <<Pkt(4, 1, 2, 3)>>,                           \* continuation without start
      <<Pkt(11, 176, 20, 5)>>,                       \* a Control Change
      <<Pkt(4, 240, 125, 1), Pkt(6, 2, 247, 0)>>,    \* another complete SysEx message
      <<Pkt(4, 240, 126, 127)>> }                    \* a request that was never finished

\* the request alone, after traffic that does not overflow the buffer
RequestScripts ==
    {[kind |-> "request", packets |-> pre \o split] :
        pre \in Preambles, split \in RequestSplits \cup {RequestInterleaved}}

\* messages that are not the request
OtherScripts ==
    {[kind |-> "other", packets |-> ps] : ps \in
      { \* F0 7E 7F 06 01 00 F7: the request with a byte inserted
        <<Pkt(4, 240, 126, 127), Pkt(4, 6, 1, 0), Pkt(5, 247, 0, 0)>>,
        \* the request, then an end packet without start: the request extended
        <<Pkt(4, 240, 126, 127), Pkt(7, 6, 1, 247), Pkt(7, 0, 0, 247)>>,
        \* F0 7E 7F 06 01: a prefix, ended by an F7 outside the payload of a CIN 6 packet
        <<Pkt(4, 240, 126, 127), Pkt(6, 6, 1, 247)>>,
        \* F0 7E 7F F7: a shorter prefix
        <<Pkt(4, 240, 126, 127), Pkt(5, 247, 0, 0)>>,
        \* 00 F0 7E 7F 06 01 F7: the request after a stale byte, no start packet
        <<Pkt(4, 0, 240, 126), Pkt(4, 127, 6, 1), Pkt(5, 247, 0, 0)>>,
        \* 01 02 03 F0 7E .. would need a start; the tail of the request alone
        <<Pkt(7, 6, 1, 247)>>,
        \* another universal message, then the request
        <<Pkt(4, 240, 126, 127), Pkt(7, 6, 2, 247),
          Pkt(4, 240, 126, 127), Pkt(7, 6, 1, 247)>>,
        \* the request twice
        <<Pkt(4, 240, 126, 127), Pkt(7, 6, 1, 247),
          Pkt(4, 240, 126, 127), Pkt(7, 6, 1, 247)>> }}

\* packets after which the buffer holds 63 bytes: a start and 20 continuations
Fill63 == <<Pkt(4, 240, 1, 2)>> \o Repeat(Pkt(4, 3, 4, 5), 20)

\* the request and 19 continuations: 63 bytes that begin with the request
RequestFill63 ==
    <<Pkt(4, 240, 126, 127), Pkt(7, 6, 1, 247)>> \o Repeat(Pkt(4, 3, 4, 5), 19)

\* messages longer than the buffer, and what the host sends after them
OverflowScripts ==
    {[kind |-> "overflow", packets |-> Fill63 \o <<Pkt(4, 6, 7, 8)>> \o tail] :
        tail \in { <<Pkt(5, 247, 0, 0)>>,
                   <<Pkt(4, 9, 9, 9), Pkt(7, 9, 9, 247)>>,
                   <<Pkt(5, 247, 0, 0), Pkt(4, 240, 126, 127), Pkt(7, 6, 1, 247)>>,
                   <<Pkt(4, 240, 126, 127), Pkt(7, 6, 1, 247)>> }}
    \cup {[kind |-> "overflow",
           packets |-> RequestFill63 \o <<Pkt(4, 6, 7, 8), Pkt(5, 247, 0, 0)>>]}

HostScripts == RequestScripts \cup OtherScripts \cup OverflowScripts

NoScript == [kind |-> "none", packets |-> <<>>]

NoRender == [drawn |-> FALSE, selected |-> 0, value |-> 0]

\* usb_task before its first iteration
UsbInit ==
    /\ sysex_receive_buffer = <<>>
    /\ usb_pc = "poll"
    /\ transfer = <<>>
    /\ chunks = <<>>
    /\ host_pos = 0
    /\ wire = <<>>
    /\ dropped = <<>>
    /\ sysex_log = <<>>
    /\ overflow_mark = NoOverflow
    /\ start_in_transfer = FALSE
    /\ reply_send = NoReply

\* main's button loop, state_task and display_task before their first run
CtlInit ==
    /\ button_pressed = FALSE
    /\ main_pc = "edge"
    /\ signalled = 0
    /\ state_pc = "select"
    /\ state_lock = "none"
    /\ applied = <<>>
    /\ old_value = 0
    /\ rendered = NoRender

\* the store as constructed and idle
StoreIdleInit ==
    /\ overflow_checks \in BOOLEAN
    /\ attributes = ConstructedStore.attributes
    /\ selected_option = ConstructedStore.selected_option
    /\ midi_queue = ConstructedStore.midi_queue
    /\ produced = ConstructedStore.produced
    /\ produced_log = ConstructedStore.log
    /\ panicked = ConstructedStore.panicked
    /\ call = NoCall
    /\ ncalls = 0
    /\ presses = 0

-----------------------------------------------------------------------------
(* The control loop: main.rs button loop, state.rs state_task, display.rs *)

\* mutant of WatchTake: the receiver does not mark the value as seen
WatchTakeKeepsFresh(cell) == cell

\* embassy_sync watch Receiver::changed(): returns the latest value and marks
\* it as seen by this receiver
WatchTake(cell) == [cell EXCEPT !.fresh = FALSE]

\* mutant of ButtonAfterDelta: the notification is consumed when a delta wins
ButtonAfterDeltaCleared(pending) == FALSE

\* BUTTON_PRESSED after select(..) returned Either::First: select polls
\* delta_receiver.changed() first and returns without taking the signal
ButtonAfterDelta(pending) == pending

\* mutant of SelectResult: the button notification polled before the delta
SelectResultButtonFirst(delta_ready, button_ready) ==
    IF button_ready THEN "Second" ELSE IF delta_ready THEN "First" ELSE "Pending"

\* select(delta_receiver.changed(), BUTTON_PRESSED.wait()): the first future is
\* polled first and wins when it is ready, then the second; else the task waits
SelectResult(delta_ready, button_ready) ==
    IF delta_ready THEN "First" ELSE IF button_ready THEN "Second" ELSE "Pending"

\* mutant of GuardDropped: the guard kept alive after the call
GuardKept(holder) == holder

\* the MutexGuard of STATE.lock().await is a temporary of the call statement
\* (state.rs:47, 50), or a local of the snapshot block (display.rs:69-72): it
\* is dropped before the task reaches its next await
GuardDropped(holder) == "none"

\* main: re_key.wait_for_falling_edge().await; BUTTON_PRESSED.signal(())
ButtonPress ==
    /\ ~panicked
    /\ main_pc = "edge"
    /\ signalled < MaxPresses
    /\ button_pressed' = TRUE
    /\ signalled' = signalled + 1
    /\ main_pc' = "timer"
    /\ UNCHANGED <<state_pc, state_lock, applied, old_value, rendered>>
    /\ UNCHANGED <<storeVars, encVars, usbVars>>

\* main: Timer::after_millis(200).await
MainTimer ==
    /\ ~panicked
    /\ main_pc = "timer"
    /\ main_pc' = "edge"
    /\ UNCHANGED <<button_pressed, signalled, state_pc, state_lock, applied,
                   old_value, rendered>>
    /\ UNCHANGED <<storeVars, encVars, usbVars>>

\* the encoder is turned between two polls: the counter changes by `step` in all
Turn(step) == pulses = 0 /\ HwPulses(step)

\* rotary_encoder_task runs while the firmware has not panicked
RunningEncoderPoll == ~panicked /\ EncoderPoll

\* state_task: select(..) returns Either::First(delta), the latest delta of
\* ROTARY_DELTA; STATE.lock().await.adjust_selected(delta).await; yield_now()
StateTaskDelta ==
    /\ ~panicked
    /\ state_pc = "select"
    /\ state_lock = "none"
    /\ SelectResult(rotary_delta.fresh, button_pressed) = "First"
    /\ LET delta == rotary_delta.val.value
           st == AdjustSelectedOn(StoreRecord, delta, overflow_checks)
       IN /\ attributes' = st.attributes
          /\ selected_option' = st.selected_option
          /\ midi_queue' = st.midi_queue
          /\ produced' = st.produced
          /\ produced_log' = st.log
          /\ panicked' = st.panicked
          /\ call' = [op |-> "adjust_selected", delta |-> delta, sel |-> selected_option,
                      value |-> attributes[selected_option].value,
                      qlen |-> Len(midi_queue)]
          /\ applied' = Append(applied, [delta |-> delta, npublished |-> Len(published),
                                         button |-> button_pressed,
                                         sel |-> selected_option])
          /\ state_lock' = IF st.panicked THEN "state" ELSE GuardDropped("state")
          /\ state_pc' = IF st.panicked THEN state_pc ELSE "yield"
    /\ rotary_delta' = WatchTake(rotary_delta)
    /\ button_pressed' = ButtonAfterDelta(button_pressed)
    /\ ncalls' = ncalls + 1
    /\ UNCHANGED <<overflow_checks, presses>>
    /\ UNCHANGED <<counter, last_value, count, rotary_count, poll, npolls, pulses,
                   published>>
    /\ UNCHANGED <<main_pc, signalled, old_value, rendered>>
    /\ UNCHANGED usbVars

\* state_task: select(..) returns Either::Second: no new delta, the signal is
\* taken; STATE.lock().await.next_option(); yield_now()
StateTaskButton ==
    /\ ~panicked
    /\ state_pc = "select"
    /\ state_lock = "none"
    /\ SelectResult(rotary_delta.fresh, button_pressed) = "Second"
    /\ button_pressed' = FALSE
    /\ selected_option' = NextSelected(selected_option, AttributesLen)
    /\ midi_queue' = NextOptionQueue(midi_queue, attributes[selected_option'])
    /\ call' = [op |-> "next_option", delta |-> 0, sel |-> selected_option,
                value |-> attributes[selected_option].value, qlen |-> Len(midi_queue)]
    /\ ncalls' = ncalls + 1
    /\ presses' = presses + 1
    /\ state_lock' = GuardDropped("state")
    /\ state_pc' = "yield"
    /\ UNCHANGED <<attributes, panicked, overflow_checks, produced, produced_log>>
    /\ UNCHANGED <<main_pc, signalled, applied, old_value, rendered>>
    /\ UNCHANGED <<encVars, usbVars>>

\* state_task: yield_now().await returns, the loop goes back to select
StateTaskYield ==
    /\ ~panicked
    /\ state_pc = "yield"
    /\ state_pc' = "select"
    /\ UNCHANGED <<button_pressed, main_pc, signalled, state_lock, applied,
                   old_value, rendered>>
    /\ UNCHANGED <<storeVars, encVars, usbVars>>

\* display_task: one iteration after Timer::after_millis(50): the snapshot under
\* the lock, `if current_attribute.value == old_value { continue; }`, the drawing
DisplayTick ==
    /\ ~panicked
    /\ state_lock = "none"
    /\ state_lock' = GuardDropped("display")
    /\ LET selected == selected_option
           current_attribute == attributes[selected]
       IN IF current_attribute.value = old_value
          THEN UNCHANGED <<old_value, rendered>>
          ELSE /\ old_value' = current_attribute.value
               /\ rendered' = [drawn |-> TRUE, selected |-> selected,
                               value |-> current_attribute.value]
    /\ UNCHANGED <<button_pressed, main_pc, signalled, state_pc, applied>>
    /\ UNCHANGED <<storeVars, encVars, usbVars>>

-----------------------------------------------------------------------------
(* Specifications *)

\* the Parameter Store alone: calls on STATE; the encoder and the transport idle
InitStore ==
    /\ StoreInit
    /\ EncoderInit
    /\ UsbInit
    /\ CtlInit
    /\ host_script = NoScript
NextStore ==
    \/ \E delta \in Deltas : AdjustSelected(delta)
    \/ NextOption
SpecStore == InitStore /\ [][NextStore]_vars

\* the Encoder Decoder alone
InitEncoder ==
    /\ EncoderInit
    /\ StoreIdleInit
    /\ UsbInit
    /\ CtlInit
    /\ host_script = NoScript
NextEncoder ==
    \/ \E step \in PulseSteps : HwPulses(step)
    \/ EncoderPoll
SpecEncoder == InitEncoder /\ [][NextEncoder]_vars

\* the control loop: the encoder publishing deltas, main signalling button
\* presses, state_task applying them to STATE, display_task taking snapshots;
\* the tasks interleave at their awaits in any order
InitControl ==
    /\ EncoderInit
    /\ StoreIdleInit
    /\ UsbInit
    /\ CtlInit
    /\ host_script = NoScript
NextControl ==
    \/ \E step \in TurnSteps : Turn(step)
    \/ RunningEncoderPoll
    \/ ButtonPress
    \/ MainTimer
    \/ StateTaskDelta
    \/ StateTaskButton
    \/ StateTaskYield
    \/ DisplayTick
SpecControl == InitControl /\ [][NextControl]_vars

\* the control loop as the display shows it: display_task gets its tick again
\* and again (Timer::after_millis(50) always expires)
NextDisplay ==
    \/ \E step \in ShownSteps : Turn(step)
    \/ RunningEncoderPoll
    \/ ButtonPress
    \/ MainTimer
    \/ StateTaskDelta
    \/ StateTaskButton
    \/ StateTaskYield
    \/ DisplayTick
SpecDisplay == InitControl /\ [][NextDisplay]_vars /\ WF_vars(DisplayTick)

\* the MIDI Transport: the loop of usb_task, fed by one of the host scripts, with
\* MIDI_QUEUE empty or holding the events of MaxQueued earlier adjustments
InitUsb ==
    /\ UsbInit
    /\ host_script \in HostScripts
    /\ EncoderInit
    /\ CtlInit
    /\ overflow_checks = FALSE
    /\ \E n \in {0, MaxQueued} :
         LET st == StoreAfter(n) IN
         /\ attributes = st.attributes
         /\ selected_option = st.selected_option
         /\ midi_queue = st.midi_queue
         /\ produced = st.produced
         /\ produced_log = st.log
         /\ panicked = st.panicked
    /\ call = NoCall
    /\ ncalls = 0
    /\ presses = 0
NextUsb ==
    \/ \E k \in BurstSizes : UsbPoll(k)
    \/ UsbRegularPacket
    \/ UsbSysexOverflow
    \/ UsbSysexAppend
    \/ UsbSysexEnd
    \/ \E result \in LinkResults : UsbSendChunk(result)
    \/ \E result \in LinkResults : UsbDrain(result)
    \/ UsbDrainEmpty
    \/ UsbTimer
SpecUsb == InitUsb /\ [][NextUsb]_vars

\* the outbound path: state_task producing events while usb_task sleeps in its
\* timer (the only await of its loop), usb_task draining MIDI_QUEUE to the link;
\* after a panic nothing runs
ProducerAdjust(delta) == usb_pc = "timer" /\ AdjustSelected(delta)
DrainPoll(k) == ~panicked /\ UsbPoll(k)
DrainSend(result) == ~panicked /\ UsbDrain(result)
DrainEnd == ~panicked /\ UsbDrainEmpty
DrainSleep == ~panicked /\ UsbTimer
InitOutbound ==
    /\ UsbInit
    /\ host_script = NoScript
    /\ EncoderInit
    /\ CtlInit
    /\ overflow_checks \in BOOLEAN
    /\ \E n \in {0, MaxQueued} :
         LET st == StoreAfter(n) IN
         /\ attributes = st.attributes
         /\ selected_option = st.selected_option
         /\ midi_queue = st.midi_queue
         /\ produced = st.produced
         /\ produced_log = st.log
         /\ panicked = st.panicked
    /\ call = NoCall
    /\ ncalls = 0
    /\ presses = 0
NextOutbound ==
    \/ \E delta \in TurnSteps : ProducerAdjust(delta)
    \/ \E k \in BurstSizes : DrainPoll(k)
    \/ \E result \in LinkResults : DrainSend(result)
    \/ DrainEnd
    \/ DrainSleep
SpecOutbound == InitOutbound /\ [][NextOutbound]_vars

\* the MIDI Transport answering the identity request, on a link that does not
\* report busy forever: the retry loop of a chunk gets its Ok in the end
InitSend ==
    /\ InitUsb
    /\ host_script.kind = "request"
    /\ Len(host_script.packets) <= 3
NextSend ==
    \/ \E k \in BurstSizes : UsbPoll(k)
    \/ UsbRegularPacket
    \/ UsbSysexAppend
    \/ UsbSysexEnd
    \/ \E result \in LinkResults : UsbSendChunk(result)
    \/ \E result \in LinkResults : UsbDrain(result)
    \/ UsbDrainEmpty
    \/ UsbTimer
SpecSend == InitSend /\ [][NextSend]_vars /\ WF_vars(UsbSendChunk("Ok"))

-----------------------------------------------------------------------------
(* Claims about the Parameter Store (SpecStore) *)

\* the selected attribute as the last call found it
CallAttr == attributes[call.sel]

\* C1: in every reachable state, after any sequence of adjust_selected(delta)
\* and next_option calls, every parameter satisfies min <= value <= max.
C1_ValueWithinBounds ==
    \A i \in DOMAIN attributes :
        attributes[i].min <= attributes[i].value /\ attributes[i].value <= attributes[i].max

\* C1 witness: an adjust_selected call whose sum lay above max returned, and the
\* stored value is max
C1_Witness ==
    /\ call.op = "adjust_selected"
    /\ ~panicked
    /\ call.value + call.delta > CallAttr.max
    /\ CallAttr.value = CallAttr.max

\* C2: next_option is a cyclic rotation of the selection: each call sets the
\* selected index to (selected + 1) mod length, the index stays in 0..length-1,
\* and after `length` calls the selection is back where it started (index 0 as
\* constructed: one press gives 1, a second gives 0).
C2_CyclicRotation ==
    /\ selected_option \in 0 .. (AttributesLen - 1)
    /\ selected_option = presses % AttributesLen
    /\ call.op = "next_option" => selected_option = (call.sel + 1) % AttributesLen

\* C2 witness: the second press brought the selection back to 0
C2_Witness ==
    /\ call.op = "next_option"
    /\ presses = AttributesLen
    /\ call.sel = 1
    /\ selected_option = 0

\* C3 (as claimed): every adjust_selected call attempts to enqueue exactly one
\* Control-Change event carrying the selected parameter's channel, control number
\* and new clamped value; when the queue has room that event is enqueued.
C3_EveryCallEnqueuesOne ==
    (call.op = "adjust_selected" /\ call.qlen < QueueCap) =>
        /\ Len(midi_queue) = call.qlen + 1
        /\ EventData(midi_queue[Len(midi_queue)]) =
               [channel |-> CallAttr.channel, control |-> CallAttr.control,
                value |-> CallAttr.value]

\* C3, the calls that return: a call that did not panic on its sum enqueued
\* exactly one event with the stored value, also when the value did not change
C3_ReturnedCallEnqueuesOne ==
    (call.op = "adjust_selected" /\ ~panicked /\ call.qlen < QueueCap) =>
        /\ Len(midi_queue) = call.qlen + 1
        /\ EventData(midi_queue[Len(midi_queue)]) =
               [channel |-> CallAttr.channel, control |-> CallAttr.control,
                value |-> CallAttr.value]

\* a returned call that left the value as it was, with room in the queue
C3_UnchangedValueCase ==
    /\ call.op = "adjust_selected"
    /\ ~panicked
    /\ call.qlen < QueueCap
    /\ CallAttr.value = call.value

\* C4 (as claimed): when MIDI_QUEUE holds 16 events, adjust_selected still
\* updates the value, completes without error, and the new event is discarded:
\* the queue is unchanged and never longer than its capacity.
C4_FullQueueCallCompletes ==
    [][(call'.op = "adjust_selected" /\ ncalls' = ncalls + 1 /\ Len(midi_queue) = QueueCap) =>
          /\ ~panicked'
          /\ attributes'[selected_option].value =
                 NewValue(attributes[selected_option], call'.delta)
          /\ midi_queue' = midi_queue]_vars

\* C4, the calls that return: with the queue full the value is updated and the
\* queue is left as it was
C4_ReturnedCallDropsEvent ==
    [][(call'.op = "adjust_selected" /\ ncalls' = ncalls + 1 /\ Len(midi_queue) = QueueCap
        /\ ~panicked') =>
          /\ attributes'[selected_option].value =
                 NewValue(attributes[selected_option], call'.delta)
          /\ midi_queue' = midi_queue]_vars

\* the queue never holds more than its capacity
C4_QueueWithinCapacity == Len(midi_queue) <= QueueCap

\* a returned call that changed the value while the queue was full
C4_FullQueueCase ==
    /\ call.op = "adjust_selected"
    /\ ~panicked
    /\ call.qlen = QueueCap
    /\ CallAttr.value # call.value

-----------------------------------------------------------------------------
(* Claims about the Encoder Decoder (SpecEncoder) *)

\* C5: in a poll that reads the raw count it read at the previous poll, neither
\* a delta nor a count is published, and last_value and count are unchanged.
C5_UnchangedPollPublishesNothing ==
    [][(npolls' = npolls + 1 /\ counter = last_value) =>
          /\ rotary_delta' = rotary_delta
          /\ rotary_count' = rotary_count
          /\ last_value' = last_value
          /\ count' = count
          /\ poll'.delta = None
          /\ poll'.count = None]_vars

\* C5 witness: a poll that read an unchanged count, after an earlier poll
\* had published a delta and a count
C5_Witness ==
    /\ npolls >= 2
    /\ ~poll.changed
    /\ poll.read = last_value
    /\ rotary_delta.fresh
    /\ rotary_count.fresh

-----------------------------------------------------------------------------
(* Claims about the MIDI Transport (SpecUsb) *)

\* the process_sysex calls that returned a response
Replies == SelectSeq(sysex_log, LAMBDA e : e.response.some)

\* the SysEx chunks the link accepted, in order
SentChunks == SelectSeq(wire, LAMBDA w : w.kind = "sysex")

RECURSIVE Flatten(_)
Flatten(ss) == IF ss = <<>> THEN <<>> ELSE Head(ss) \o Flatten(Tail(ss))

\* every packet of the host script has been read and processed
ScriptDone == host_pos = Len(host_script.packets) /\ transfer = <<>>

IsSuffix(s, t) == Len(s) <= Len(t) /\ s = SubSeq(t, Len(t) - Len(s) + 1, Len(t))

\* the next packet to process overflows the buffer
OverflowNext ==
    /\ usb_pc = "packets"
    /\ transfer # <<>>
    /\ is_sysex(Head(transfer))
    /\ ~ExtendFits(BufferAfterStart(sysex_receive_buffer, Head(transfer)),
                   payload_bytes(Head(transfer)))

\* C6: the identity request F0 7E 7F 06 01 F7 fed as SysEx packets produces
\* exactly one identity reply, the same 15 bytes (cut in the same chunks) for
\* every split into packets and every grouping of the packets into transfers.
C6_RequestYieldsOneReply ==
    host_script.kind = "request" =>
        /\ Len(Replies) <= 1
        /\ \A i \in DOMAIN Replies :
              /\ Replies[i].request = <<240, 126, 127, 6, 1, 247>>
              /\ Replies[i].response.value =
                     <<240, 126, 127, 6, 2, 1, 2, 3, 4, 5, 0, 0, 0, 0, 247>>
        /\ ScriptDone => Len(Replies) = 1
        /\ usb_pc = "send" =>
              /\ chunks # <<>>
              /\ IsSuffix(chunks, Chunks3(Replies[1].response.value))
        /\ \A i \in DOMAIN SentChunks :
              \E j \in 1..5 : SentChunks[i].bytes = Chunks3(IdentityReply)[j]

\* C6 witness: a request in three packets whose start packet came in an earlier
\* transfer than its end packet was answered, and the link took all 15 bytes
C6_Witness ==
    /\ host_script.kind = "request"
    /\ Len(host_script.packets) >= 4
    /\ ScriptDone
    /\ Len(Replies) = 1
    /\ ~Replies[1].same_transfer
    /\ Flatten([i \in DOMAIN SentChunks |-> SentChunks[i].bytes]) = IdentityReply

\* C7 (as claimed): when appending a SysEx packet's payload would exceed the 64
\* bytes of the buffer, the buffer is cleared and the remaining packets of the
\* transfer are not processed.
C7_OverflowClearsBuffer ==
    [][OverflowNext => (sysex_receive_buffer' = <<>> /\ transfer' = <<>>)]_vars

\* C7, what the code does: the remaining packets of the transfer are skipped and
\* the buffer keeps the bytes it held
C7_OverflowKeepsBuffer ==
    [][OverflowNext =>
          (sysex_receive_buffer' = sysex_receive_buffer /\ transfer' = <<>>
           /\ usb_pc' = "drain")]_vars

\* C8: a SysEx message that overflowed the buffer never causes a reply: no
\* process_sysex call between the overflow and the next start packet returns a
\* response, and the loop goes on to drain the outbound queue.
C8_NoReplyAfterOverflow ==
    [][/\ OverflowNext => (usb_pc' = "drain" /\ chunks' = <<>>)
       /\ \A i \in DOMAIN sysex_log' :
             sysex_log'[i].after_overflow => ~sysex_log'[i].response.some
       /\ (overflow_mark.active /\ overflow_mark'.active) => Len(Replies') = Len(Replies)]_vars

\* C8 witness: after an overflow an end packet of the same message was processed
\* and an event of the outbound queue was handed to the link
C8_Witness ==
    /\ overflow_mark.active
    /\ \E i \in DOMAIN sysex_log : sysex_log[i].after_overflow
    /\ Len(wire) > overflow_mark.wire_len
    /\ wire[Len(wire)].kind = "cc"

\* C9: process_sysex answers only the exact 6-byte identity request
\* F0 7E 7F 06 01 F7, with the 15 bytes F0 7E 7F 06 02 01 02 03 04 05 00 00 00 00 F7;
\* every other reassembled content yields no response.
C9_OnlyIdentityRequestAnswered ==
    \A i \in DOMAIN sysex_log :
        IF sysex_log[i].request = <<240, 126, 127, 6, 1, 247>>
        THEN /\ sysex_log[i].response.some
             /\ sysex_log[i].response.value =
                    <<240, 126, 127, 6, 2, 1, 2, 3, 4, 5, 0, 0, 0, 0, 247>>
             /\ Len(sysex_log[i].response.value) = 15
        ELSE ~sysex_log[i].response.some

\* C9 witness: the request was answered, and a later content that begins with
\* the request and goes on was not
C9_Witness ==
    /\ Len(sysex_log) = 2
    /\ sysex_log[1].response = Some(IdentityReply)
    /\ Len(sysex_log[2].request) > 6
    /\ SubSeq(sysex_log[2].request, 1, 6) = IDENTITY_REQUEST
    /\ ~sysex_log[2].response.some

\* the events the link refused as busy while draining
BusyDropped == SelectSeq(dropped, LAMBDA d : d.result = "WouldBlock")

ReplyChunksSent ==
    LET sent == SelectSeq(SubSeq(wire, reply_send.wire_len + 1, Len(wire)),
                          LAMBDA w : w.kind = "sysex")
    IN [i \in 1 .. Len(sent) |-> sent[i].bytes]

\* C11 (as claimed): while a SysEx reply is sent, a transmit error other than
\* busy on one chunk aborts the sending of all remaining chunks of that response
\* (no later chunk is handed to the link), and the transport loop continues with
\* its next steps.
C11_ErrorAbortsRemainingChunks ==
    [][(usb_pc = "send" /\ reply_send'.errors = reply_send.errors + 1) =>
          /\ chunks' = <<>>
          /\ usb_pc' \in {"packets", "drain"}]_vars

\* C11, what the code does: the error gives up the one chunk, the chunks after
\* it are still sent, and the loop goes on once the last chunk is done
C11_ErrorSkipsOneChunk ==
    [][(usb_pc = "send" /\ reply_send'.errors = reply_send.errors + 1) =>
          /\ chunks' = Tail(chunks)
          /\ wire' = wire
          /\ usb_pc' = IF chunks' = <<>> THEN AfterPacket(transfer) ELSE "send"]_vars

\* a chunk was accepted by the link after an earlier chunk of the same response
\* had failed with an error other than busy
C11_LaterChunkSentCase ==
    /\ reply_send.active
    /\ reply_send.errors = 1
    /\ chunks = <<>>
    /\ ReplyChunksSent = SubSeq(Chunks3(IdentityReply), 2, 5)

\* C16 (as claimed): the reassembly buffer is cleared when an end packet has
\* been processed: after a complete message is consumed the buffer is empty, so
\* continuation or end packets without a preceding start packet are not appended
\* to the bytes of the previous message.
C16_BufferClearedAfterEnd ==
    [][Len(sysex_log') = Len(sysex_log) + 1 => sysex_receive_buffer' = <<>>]_vars

\* C16, what the code does: after an end packet the buffer holds the whole
\* message, and stays so until a start packet clears it
C16_BufferKeepsMessage ==
    [][Len(sysex_log') = Len(sysex_log) + 1 =>
          sysex_receive_buffer' = sysex_log'[Len(sysex_log')].request]_vars

\* an end packet without start was appended to the bytes of the message before
C16_StaleBytesCase ==
    /\ Len(sysex_log) = 2
    /\ Len(sysex_log[2].request) > Len(sysex_log[1].request)
    /\ SubSeq(sysex_log[2].request, 1, Len(sysex_log[1].request)) = sysex_log[1].request

-----------------------------------------------------------------------------
(* Further claims about the Parameter Store (SpecStore) *)

\* C14 (as claimed): for every delta the Encoder Decoder can publish (any signed
\* 16-bit value) and every parameter value, the intermediate sum value + delta of
\* adjust_selected does not overflow signed 16-bit arithmetic, and the stored
\* result equals clamp(value + delta, min, max) computed over the integers.
C14_SumNeverOverflows ==
    call.op = "adjust_selected" =>
        /\ ~SumOverflows(call.value, call.delta)
        /\ CallAttr.value = Clamp(call.value + call.delta, CallAttr.min, CallAttr.max)

\* C14, the sums that stay within i16: the stored result is the clamp over the
\* integers
C14_InRangeSumClamped ==
    (call.op = "adjust_selected" /\ ~SumOverflows(call.value, call.delta)) =>
        /\ ~panicked
        /\ CallAttr.value = Clamp(call.value + call.delta, CallAttr.min, CallAttr.max)

\* a sum that left i16 on a build without overflow checks: the wrapped sum was
\* clamped to min where the integers give max
C14_WrappedSumCase ==
    /\ call.op = "adjust_selected"
    /\ ~overflow_checks
    /\ call.value + call.delta > 32767
    /\ CallAttr.value = CallAttr.min

\* C18: next_option changes only the selected index: it enqueues no outbound
\* MIDI event and leaves every parameter's value and identity fields (name,
\* channel, control, min, max) unchanged.
C18_NextOptionChangesOnlyIndex ==
    [][(call'.op = "next_option" /\ ncalls' = ncalls + 1) =>
          /\ attributes' = attributes
          /\ midi_queue' = midi_queue
          /\ produced_log' = produced_log
          /\ selected_option' # selected_option]_vars

\* C18 witness: next_option was called on a store whose selected value had been
\* adjusted and whose queue held events, and moved the selection to Feedback
C18_Witness ==
    /\ call.op = "next_option"
    /\ call.sel = 0
    /\ selected_option = 1
    /\ midi_queue # <<>>
    /\ attributes[0].value # ConstructedAttributes[0].value
    /\ attributes[1] = ConstructedAttributes[1]

-----------------------------------------------------------------------------
(* Further claims about the Encoder Decoder (SpecEncoder) *)

\* C15 (as claimed): on every poll where the raw count changed, the delta is
\* published, and the new cumulative count equals the previous count plus that
\* delta clamped to [0, 100], for every previous count in 0..100 and every
\* signed 16-bit delta; the count is published only when it differs from the
\* previous count.
C15_CountAddsDeltaClamped ==
    [][(npolls' = npolls + 1 /\ counter # last_value) =>
          LET delta == WrappingSub(counter, last_value) IN
          /\ rotary_delta' = [val |-> Some(delta), fresh |-> TRUE]
          /\ published' = Append(published, delta)
          /\ count' = Clamp(count + delta, 0, 100)
          /\ IF count' # count
             THEN rotary_count' = [val |-> Some(count'), fresh |-> TRUE]
             ELSE rotary_count' = rotary_count]_vars

\* C15, what the code does: the delta is cut to its low 8 bits (`delta as i8`)
\* before it is added
C15_CountAddsTruncatedDelta ==
    [][(npolls' = npolls + 1 /\ counter # last_value) =>
          LET delta == WrappingSub(counter, last_value) IN
          /\ rotary_delta' = [val |-> Some(delta), fresh |-> TRUE]
          /\ count' = Clamp(Clamp(count + AsI8(delta), 0, 255), 0, 100)
          /\ IF count' # count
             THEN rotary_count' = [val |-> Some(count'), fresh |-> TRUE]
             ELSE rotary_count' = rotary_count]_vars

\* a poll that read a delta of 200 and left the count at 0
C15_TruncatedDeltaCase ==
    /\ poll.changed
    /\ poll.delta = Some(200)
    /\ count = 0

-----------------------------------------------------------------------------
(* Claims about the sending of the reply (SpecSend) *)

\* C17: when an identity reply is generated and the link eventually stops
\* reporting busy, the 15-byte reply is sent as 5 chunks of 3 bytes, in order,
\* each chunk handed successfully to the link exactly once (a busy chunk is
\* retried, not skipped or duplicated), and the send loop terminates so the
\* transport loop resumes.  The link reports Ok or busy here; an error other than
\* busy is the case of C11.
C17_ReplySentInFiveChunks ==
    /\ [](reply_send.active /\ reply_send.errors = 0 =>
            /\ ReplyChunksSent \o chunks =
                   << <<240, 126, 127>>, <<6, 2, 1>>, <<2, 3, 4>>, <<5, 0, 0>>,
                      <<0, 0, 247>> >>
            /\ usb_pc = "send" <=> chunks # <<>>)
    /\ (usb_pc = "send" ~> usb_pc # "send")

\* C17 witness: a reply during which the link reported busy and no other error
\* is on the wire in its 5 chunks, and the loop has gone on to its draining
C17_Witness ==
    /\ reply_send.active
    /\ reply_send.retried
    /\ reply_send.errors = 0
    /\ usb_pc = "timer"
    /\ Len(ReplyChunksSent) = 5
    /\ Flatten(ReplyChunksSent) = IdentityReply

-----------------------------------------------------------------------------
(* Claims about the control loop (SpecControl) *)

\* C12: a button notification is never lost: once signalled it stays pending
\* until the control loop of the Parameter Store observes it, observing it is the
\* only thing that clears it, each observation performs exactly one next_option,
\* deltas that win the first-of-two wait in the meantime do not clear it, and at
\* most one notification is pending at any time (BUTTON_PRESSED is one slot: a
\* press while one is pending leaves one pending).
C12_NotificationNeverLost ==
    [][/\ (button_pressed /\ ~button_pressed') =>
             /\ presses' = presses + 1
             /\ call'.op = "next_option"
             /\ selected_option' = (selected_option + 1) % AttributesLen
       /\ presses' # presses =>
             /\ button_pressed /\ ~button_pressed'
             /\ presses' = presses + 1
       /\ Len(applied') > Len(applied) => button_pressed' = button_pressed
       /\ button_pressed' \in BOOLEAN
       /\ presses' <= signalled']_vars

\* C12 witness: a delta won the wait while a notification was pending, and the
\* notification was observed afterwards by one next_option
C12_Witness ==
    /\ \E i \in DOMAIN applied : applied[i].button
    /\ ~panicked
    /\ call.op = "next_option"
    /\ presses = 1
    /\ signalled = 1
    /\ ~button_pressed

\* C13: the lock of the parameter set is held by at most one activity at a
\* time and only for one adjust, select or snapshot call: neither state_task nor
\* display_task holds it across a suspension point (timer wait, first-of-two
\* wait, yield), so no activity waits forever for the lock.  Every state of a
\* running firmware has all tasks at an await; a state_task that panicked inside
\* adjust_selected is not at one (the firmware spins in its panic handler).
C13_LockNotHeldAcrossAwait ==
    /\ state_lock \in {"none", "state", "display"}
    /\ ~panicked => state_lock = "none"
    /\ state_lock # "display"
    /\ (~panicked /\ state_pc = "select" /\ (rotary_delta.fresh \/ button_pressed)) =>
          ENABLED (StateTaskDelta \/ StateTaskButton)
    /\ ~panicked => ENABLED DisplayTick

\* C13 witness: state_task is at its yield after an adjust and a next_option,
\* display_task has taken a snapshot of the adjusted value and drawn it, and the
\* lock is free
C13_Witness ==
    /\ ~panicked
    /\ state_pc = "yield"
    /\ applied # <<>>
    /\ presses >= 1
    /\ rendered.drawn
    /\ rendered.value # ConstructedAttributes[rendered.selected].value
    /\ state_lock = "none"

\* C19: the delta cell has latest-value semantics: publishing a delta never
\* blocks the encoder loop, each published delta is applied by state_task at
\* most once, and when several deltas are published before state_task next
\* observes the cell, only the latest one is applied (earlier ones are skipped,
\* not summed).
C19_LatestDeltaAppliedOnce ==
    /\ \A i \in DOMAIN applied :
          /\ applied[i].npublished \in DOMAIN published
          /\ applied[i].delta = published[applied[i].npublished]
    /\ \A i, j \in DOMAIN applied :
          i < j => applied[i].npublished < applied[j].npublished
    /\ rotary_delta.fresh => (Len(published) > 0 /\ rotary_delta.val = Some(published[Len(published)]))
    /\ (~panicked /\ npolls < MaxPolls) => ENABLED RunningEncoderPoll

\* C19 witness: two different deltas were published before state_task looked,
\* and the one call it made applied the second alone
C19_Witness ==
    /\ Len(published) = 2
    /\ published[1] # published[2]
    /\ Len(applied) = 1
    /\ applied[1].npublished = 2
    /\ ~panicked
    /\ call.op = "adjust_selected"
    /\ attributes[call.sel].value = call.value + published[2]

-----------------------------------------------------------------------------
(* Claims about the outbound path (SpecOutbound) *)

\* the Control-Change events the link accepted, in order
CcSent == SelectSeq(wire, LAMBDA w : w.kind = "cc")

\* s is a subsequence of t
RECURSIVE IsSubseq(_, _)
IsSubseq(s, t) ==
    IF s = <<>> THEN TRUE
    ELSE IF t = <<>> THEN FALSE
    ELSE IF Head(s) = Head(t) THEN IsSubseq(Tail(s), Tail(t))
    ELSE IsSubseq(s, Tail(t))

\* C20: outbound delivery preserves order and never duplicates: the sequence of
\* Control-Change events successfully handed to the link is a subsequence of the
\* sequence of events produced by adjust_selected, in the same order, and no
\* event is handed to the link more than once.
C20_DeliveryInOrderNoDuplicates ==
    /\ IsSubseq([i \in DOMAIN CcSent |-> CcSent[i].bytes],
                [i \in DOMAIN produced_log |-> RenderSlice(produced_log[i])])
    /\ \A i, j \in DOMAIN CcSent : i < j => CcSent[i].seq < CcSent[j].seq
    /\ \A i \in DOMAIN CcSent :
          \E k \in DOMAIN produced_log :
              /\ produced_log[k].seq = CcSent[i].seq
              /\ RenderSlice(produced_log[k]) = CcSent[i].bytes
    /\ \A i \in DOMAIN CcSent, j \in DOMAIN midi_queue : CcSent[i].seq < midi_queue[j].seq

\* C20 witness: two events are on the wire with a refused one between them, and
\* the second was produced by a call made while usb_task slept
C20_Witness ==
    /\ Len(CcSent) >= 2
    /\ \E i \in DOMAIN dropped :
          /\ CcSent[1].seq < dropped[i].message.seq
          /\ dropped[i].message.seq < CcSent[2].seq
    /\ ncalls >= 1
    /\ call.op = "adjust_selected"
    /\ CcSent[Len(CcSent)].seq = produced

\* C21: when a new delta and a button notification are both pending at the
\* moment state_task waits, the delta is handled first: it is applied to the
\* parameter selected before the button press, and only on the following
\* iteration does next_option advance the selection.
C21_DeltaBeforeButton ==
    [][/\ (state_pc = "select" /\ rotary_delta.fresh /\ button_pressed
           /\ ncalls' = ncalls + 1) =>
             /\ call'.op = "adjust_selected"
             /\ call'.sel = selected_option
             /\ call'.delta = rotary_delta.val.value
             /\ selected_option' = selected_option
             /\ presses' = presses
             /\ button_pressed'
             /\ \A i \in DOMAIN attributes :
                   i # selected_option => attributes'[i] = attributes[i]
             /\ ~panicked' => state_pc' = "yield"
       /\ (state_pc = "select" /\ ~rotary_delta.fresh /\ button_pressed
           /\ ncalls' = ncalls + 1) =>
             /\ call'.op = "next_option"
             /\ selected_option' = (selected_option + 1) % AttributesLen
             /\ attributes' = attributes]_vars

\* C21 witness: with both pending the delta went to Delay, the parameter
\* selected before the press, and the iteration after it moved the selection to
\* Feedback, whose value is untouched
C21_Witness ==
    /\ Len(applied) = 1
    /\ applied[1].button
    /\ applied[1].sel = 0
    /\ ~panicked
    /\ ncalls = 2
    /\ call.op = "next_option"
    /\ selected_option = 1
    /\ attributes[0].value = ConstructedAttributes[0].value + applied[1].delta
    /\ attributes[1] = ConstructedAttributes[1]

-----------------------------------------------------------------------------
(* Claims about the display loop (SpecDisplay) *)

\* the last drawing shows the selected parameter with its current value
Shown ==
    /\ rendered.drawn
    /\ rendered.selected = selected_option
    /\ rendered.value = attributes[selected_option].value

\* the last drawing shows a parameter that is no longer the selected one
StaleSelection == rendered.drawn /\ rendered.selected # selected_option

\* C22 (as claimed): after the selection changes, the display loop redraws on
\* one of its following ticks, so that the parameter last rendered is the
\* currently selected parameter with its current value, also when the newly
\* selected parameter's value equals the value rendered last.
C22_SelectionChangeRedrawn == StaleSelection ~> Shown

\* C22, what the code does: a tick draws only when the selected value differs
\* from old_value, the value drawn last; the selection is not compared
C22_RedrawOnlyOnValueChange ==
    [][rendered' # rendered =>
          /\ attributes[selected_option].value # old_value
          /\ old_value' = attributes[selected_option].value
          /\ rendered' = [drawn |-> TRUE, selected |-> selected_option,
                          value |-> attributes[selected_option].value]]_vars

\* the selection moved to a parameter whose value is the value drawn last: no
\* tick draws
C22_StaleDisplayCase ==
    /\ StaleSelection
    /\ ~panicked
    /\ attributes[selected_option].value = old_value
    /\ ~ENABLED (DisplayTick /\ rendered' # rendered)

=============================================================================
